---- MODULE Spec2Model ----
(***************************************************************************)
(* Model of app/js/Editor.js: the Editor class that wraps a CodeMirror     *)
(* widget, keeps the parsed document in this.data, reformats the editor    *)
(* content and runs the filter text through the JavaScript vm first and    *)
(* through jq as a fallback.                                               *)
(*                                                                         *)
(* Everything runs on one event loop.  A user event (typing, pasting, a    *)
(* keyup in the filter input, a call of a public method) is one stimulus;  *)
(* the editor notifications it raises are delivered to the registered      *)
(* handlers before the next stimulus and before any promise callback.      *)
(* Event listeners of the Editor are taken not to throw.                   *)
(***************************************************************************)
EXTENDS Integers, Sequences, FiniteSets, TLC

VARIABLES
  content,     \* the editor widget's text: editor.getValue()
  data,        \* this.data
  filterVal,   \* what this.filter.val() returns
  pending,     \* editor notifications raised and not yet delivered
  runs,        \* one record per runFilter() invocation
  trace,       \* validate()/formatInput() calls made for the current stimulus
  stim,        \* the current stimulus
  nStim,       \* number of stimuli so far
  lastParse,   \* outcome of the most recent json5.parse attempt
  thrown       \* the last step let an exception escape a public operation

vars == <<content, data, filterVal, pending, runs, trace, stim, nStim, lastParse, thrown>>

(***************************************************************************)
(* Bounds                                                                  *)
(***************************************************************************)
MaxStimuli == 3
MaxRuns == 2

(***************************************************************************)
(* JavaScript values                                                       *)
(***************************************************************************)
Undefined == [t |-> "undefined"]
Null == [t |-> "null"]
Num(k) == [t |-> "number", n |-> k]
Infinity == [t |-> "Infinity"]
Obj(fields) == [t |-> "object", f |-> fields]

DocA1 == Obj([a |-> Num(1)])
DocA5 == Obj([a |-> Num(5)])

\* if (sandbox.result): JavaScript truthiness
Truthy(v) ==
  CASE v.t = "undefined" -> FALSE
    [] v.t = "null" -> FALSE
    [] v.t = "number" -> v.n # 0
    [] OTHER -> TRUE

\* x.k for a non-nullish x
GetProp(x, k) ==
  IF x.t = "object" /\ k \in DOMAIN x.f THEN x.f[k] ELSE Undefined

\* x.k = v for a non-nullish x, in sloppy mode: a primitive is left as it is
SetProp(x, k, v) ==
  IF x.t = "object"
    THEN Obj([j \in DOMAIN x.f \cup {k} |-> IF j = k THEN v ELSE x.f[j]])
    ELSE x

Nullish(x) == x.t \in {"undefined", "null"}

(***************************************************************************)
(* Editor texts and json5.parse                                            *)
(***************************************************************************)
TxtEmpty == ""
TxtBroken == "{a:"
TxtNull == "null"
TxtJson5 == "{a:1} // c"
TxtInfinity == "Infinity"
FmtA1 == "{\n  \"a\": 1\n}"
FmtA5 == "{\n  \"a\": 5\n}"

\* what the user types or pastes
Texts == {TxtEmpty, TxtBroken, TxtNull, TxtJson5, TxtInfinity}
\* what require('./welcome-message') may be: a text json5 rejects, or one it accepts
WelcomeTexts == {TxtBroken, TxtJson5}
\* every text the editor can hold
AllTexts == Texts \cup {FmtA1, FmtA5}

ParseOk(v) == [ok |-> TRUE, v |-> v]
ParseError == [ok |-> FALSE]

\* json5.parse(input): the parsed value, or a SyntaxError
Parse(input) ==
  CASE input = TxtEmpty -> ParseError
    [] input = TxtBroken -> ParseError
    [] input = TxtNull -> ParseOk(Null)
    [] input = TxtJson5 -> ParseOk(DocA1)
    [] input = TxtInfinity -> ParseOk(Infinity)
    [] input = FmtA1 -> ParseOk(DocA1)
    [] input = FmtA5 -> ParseOk(DocA5)

(***************************************************************************)
(* JSON.stringify(value, null, 2)                                          *)
(***************************************************************************)
RECURSIVE Pad(_)
Pad(depth) == IF depth = 0 THEN "" ELSE "  " \o Pad(depth - 1)

Digit(k) ==
  CASE k = 0 -> "0" [] k = 1 -> "1" [] k = 2 -> "2" [] k = 3 -> "3" [] k = 4 -> "4"
    [] k = 5 -> "5" [] k = 6 -> "6" [] k = 7 -> "7" [] k = 8 -> "8" [] k = 9 -> "9"

KeyOrder == <<"a", "b">>

RECURSIVE Ser(_, _)
RECURSIVE SerFields(_, _, _)
SerFields(fields, i, depth) ==
  IF i > Len(KeyOrder) THEN ""
  ELSE IF KeyOrder[i] \notin DOMAIN fields THEN SerFields(fields, i + 1, depth)
  ELSE LET rest == SerFields(fields, i + 1, depth)
       IN  Pad(depth) \o "\"" \o KeyOrder[i] \o "\": " \o Ser(fields[KeyOrder[i]], depth)
             \o (IF rest = "" THEN "\n" ELSE ",\n" \o rest)
\* the text of a value other than undefined, at an indentation depth
Ser(v, depth) ==
  CASE v.t = "null" -> "null"
    [] v.t = "Infinity" -> "null"
    [] v.t = "number" -> Digit(v.n)
    [] v.t = "object" ->
         IF DOMAIN v.f = {} THEN "{}"
         ELSE "{\n" \o SerFields(v.f, 1, depth + 1) \o Pad(depth) \o "}"

\* JSON.stringify(v, null, 2): a string, or undefined for undefined
Stringify(v) ==
  IF v.t = "undefined" THEN [str |-> FALSE] ELSE [str |-> TRUE, s |-> Ser(v, 0)]

(***************************************************************************)
(* Filter texts, and the two evaluators on them                            *)
(***************************************************************************)
FltEmpty == ""
FltA == ".a"
FltOr == "||1"
FltAlt == ".a//1"
FltSet == ".a=5"
FltSetThrow == ".a=5,y.z"
FltBroken == "]"
FltIndex == ".[\"a\"]"
FltAnd == "&&0"

FilterTexts ==
  {FltEmpty, FltA, FltOr, FltAlt, FltSet, FltSetThrow, FltBroken, FltIndex, FltAnd}
\* this.filter.val(): a string, or undefined when there is no input element
Absent == [def |-> FALSE]
Val(s) == [def |-> TRUE, s |-> s]
FilterVals == {Val(s) : s \in FilterTexts} \cup {Absent}

Returned(result, x) == [threw |-> FALSE, result |-> result, x |-> x]
Threw(x) == [threw |-> TRUE, x |-> x]

\* new vm.Script(`result = x${filter}`).runInNewContext({x: this.data, result: null}):
\* sandbox.result when the script completes, or a throw; x is the object this.data
\* refers to as the script leaves it (the sandbox shares the object, not a copy)
JsEval(filter, x) ==
  CASE filter = FltEmpty ->     \* result = x
         Returned(x, x)
    [] filter = FltA ->         \* result = x.a
         IF Nullish(x) THEN Threw(x) ELSE Returned(GetProp(x, "a"), x)
    [] filter = FltOr ->        \* result = x||1
         Returned(IF Truthy(x) THEN x ELSE Num(1), x)
    [] filter = FltAlt ->       \* result = x.a//1   (a line comment)
         IF Nullish(x) THEN Threw(x) ELSE Returned(GetProp(x, "a"), x)
    [] filter = FltSet ->       \* result = x.a=5
         IF Nullish(x) THEN Threw(x) ELSE Returned(Num(5), SetProp(x, "a", Num(5)))
    [] filter = FltSetThrow ->  \* result = x.a=5,y.z   (y is not defined)
         IF Nullish(x) THEN Threw(x) ELSE Threw(SetProp(x, "a", Num(5)))
    [] filter = FltBroken ->    \* result = x]        (SyntaxError)
         Threw(x)
    [] filter = FltIndex ->     \* result = x.["a"]   (SyntaxError)
         Threw(x)
    [] filter = FltAnd ->       \* result = x&&0
         Returned(IF Truthy(x) THEN Num(0) ELSE x, x)

Resolve(v) == [kind |-> "resolve", v |-> v]
Reject == [kind |-> "reject"]

\* the JSON text node-jq feeds to jq, read back: JSON.stringify turns Infinity into null
ToJson(d) == IF d.t = "Infinity" THEN Null ELSE d

\* jq's .a on a JSON input
JqField(j) ==
  CASE j.t = "null" -> Resolve(Null)
    [] j.t = "object" -> Resolve(IF "a" \in DOMAIN j.f THEN j.f["a"] ELSE Null)
    [] OTHER -> Reject

\* jq <filter> on a JSON input: the promise's settlement
JqEval(filter, j) ==
  CASE filter = FltEmpty -> Resolve(j)      \* the empty program is the identity
    [] filter = FltA -> JqField(j)
    [] filter = FltIndex -> JqField(j)
    [] filter = FltAlt ->       \* .a // 1 : 1 when .a is null, false or an error
         LET r == JqField(j)
         IN  IF r.kind = "resolve" /\ r.v.t # "null" THEN r ELSE Resolve(Num(1))
    [] filter = FltSet ->       \* .a = 5
         IF j.t = "null" THEN Resolve(DocA5)
         ELSE IF j.t = "object" THEN Resolve(SetProp(j, "a", Num(5)))
         ELSE Reject
    [] filter = FltOr -> Reject
    [] filter = FltSetThrow -> Reject
    [] filter = FltBroken -> Reject
    [] filter = FltAnd -> Reject

\* jq.run(filter, data, {input: 'json', output: 'json'}): how the promise can settle.
\* undefined is no JSON input: the library either rejects it or feeds null.
JqOutcomes(filter, d) ==
  IF d.t = "undefined" THEN {Reject, JqEval(filter, Null)} ELSE {JqEval(filter, ToJson(d))}

(***************************************************************************)
(* Events the Editor emits                                                 *)
(***************************************************************************)
InputValid == [name |-> "input-valid"]
FilterEmpty == [name |-> "filter-empty"]
FilterInvalid == [name |-> "filter-invalid"]
FilterValid(result, type) == [name |-> "filter-valid", result |-> result, type |-> type]

(***************************************************************************)
(* validate(), formatInput(), runFilter()                                  *)
(***************************************************************************)
\* validate() with the emit moved in front of the parse
ValidateEmitsFirst(input) ==
  LET p == Parse(input)
  IN  [data |-> IF p.ok THEN p.v ELSE Null, ret |-> p.ok, events |-> <<InputValid>>,
       parsed |-> IF p.ok THEN "ok" ELSE "failed", threw |-> FALSE]

\* validate() without the emit
ValidateNoEmit(input) ==
  LET p == Parse(input)
  IN  [data |-> IF p.ok THEN p.v ELSE Null, ret |-> p.ok, events |-> <<>>,
       parsed |-> IF p.ok THEN "ok" ELSE "failed", threw |-> FALSE]

\* validate() whose catch block resets this.data to undefined instead of null
ValidateUndefinedOnError(input) ==
  LET p == Parse(input)
  IN  [data |-> IF p.ok THEN p.v ELSE Undefined, ret |-> p.ok,
       events |-> IF p.ok THEN <<InputValid>> ELSE <<>>,
       parsed |-> IF p.ok THEN "ok" ELSE "failed", threw |-> FALSE]

\* validate() on the editor text: the new this.data, the return value, the events
Validate(input) ==
  LET p == Parse(input)
  IN  IF p.ok
        THEN [data |-> p.v, ret |-> TRUE, events |-> <<InputValid>>, parsed |-> "ok",
              threw |-> FALSE]
        ELSE [data |-> Null, ret |-> FALSE, events |-> <<>>, parsed |-> "failed",
              threw |-> FALSE]

\* this.editor.setValue(arg): the widget splits its argument into lines, which
\* throws a TypeError for anything but a string; otherwise it replaces the whole
\* content and raises a change notification
SetValue(arg, text) ==
  IF arg.str
    THEN [content |-> arg.s, notify |-> <<[type |-> "change", origin |-> "setValue"]>>,
          set |-> TRUE, threw |-> FALSE]
    ELSE [content |-> text, notify |-> <<>>, set |-> TRUE, threw |-> TRUE]

\* formatInput() without its null test
FormatInputNoNullTest(d, text) == SetValue(Stringify(d), text)

\* formatInput() with this.data = d and the editor holding text
FormatInput(d, text) ==
  IF d # Null
    THEN SetValue(Stringify(d), text)
    ELSE [content |-> text, notify |-> <<>>, set |-> FALSE, threw |-> FALSE]

\* jq.run(filter, null, ...): a call that leaves this.data out
JqCallWithoutDocument(filter, d) == [filter |-> filter, data |-> Null]

\* jq.run(filter, this.data, ...): the arguments of one call
JqCall(filter, d) == [filter |-> filter, data |-> d]
\* the promise of an invocation before it settles, or when there is none
NotSettled == [kind |-> "none"]

\* the emptiness test without its length half
FilterIsEmptyOnlyAbsent(fv) == ~fv.def

\* if (!filter || !filter.length)
FilterIsEmpty(fv) == ~fv.def \/ fv.s = "" \/ Len(fv.s) = 0

\* runFilter() whose catch block emits filter-invalid before it falls back to jq
RunFilterEmitsBeforeFallback(fv, d) ==
  IF ~fv.def \/ fv.s = ""
    THEN [data |-> d,
          run |-> [filter |-> fv, doc |-> d, js |-> <<>>, jq |-> <<>>,
                   promise |-> "none", settled |-> NotSettled, events |-> <<FilterEmpty>>]]
    ELSE LET r == JsEval(fv.s, d)
         IN  IF ~r.threw
               THEN [data |-> r.x,
                     run |-> [filter |-> fv, doc |-> d, js |-> <<d>>, jq |-> <<>>,
                              promise |-> "none", settled |-> NotSettled,
                              events |-> IF Truthy(r.result)
                                           THEN <<FilterValid(r.result, "js")>>
                                           ELSE <<FilterInvalid>>]]
               ELSE [data |-> r.x,
                     run |-> [filter |-> fv, doc |-> d, js |-> <<d>>,
                              jq |-> <<JqCall(fv.s, r.x)>>,
                              promise |-> "pending", settled |-> NotSettled,
                              events |-> <<FilterInvalid>>]]

\* runFilter() handing a falsy expression result on to jq
RunFilterFalsyFallsBack(fv, d) ==
  IF ~fv.def \/ fv.s = ""
    THEN [data |-> d,
          run |-> [filter |-> fv, doc |-> d, js |-> <<>>, jq |-> <<>>,
                   promise |-> "none", settled |-> NotSettled, events |-> <<FilterEmpty>>]]
    ELSE LET r == JsEval(fv.s, d)
         IN  IF ~r.threw /\ Truthy(r.result)
               THEN [data |-> r.x,
                     run |-> [filter |-> fv, doc |-> d, js |-> <<d>>, jq |-> <<>>,
                              promise |-> "none", settled |-> NotSettled,
                              events |-> <<FilterValid(r.result, "js")>>]]
               ELSE [data |-> r.x,
                     run |-> [filter |-> fv, doc |-> d, js |-> <<d>>,
                              jq |-> <<JqCall(fv.s, r.x)>>,
                              promise |-> "pending", settled |-> NotSettled,
                              events |-> <<>>]]

\* runFilter() whose catch emits filter-invalid instead of calling jq
RunFilterNoFallback(fv, d) ==
  IF ~fv.def \/ fv.s = ""
    THEN [data |-> d,
          run |-> [filter |-> fv, doc |-> d, js |-> <<>>, jq |-> <<>>,
                   promise |-> "none", settled |-> NotSettled, events |-> <<FilterEmpty>>]]
    ELSE LET r == JsEval(fv.s, d)
         IN  [data |-> r.x,
              run |-> [filter |-> fv, doc |-> d, js |-> <<d>>, jq |-> <<>>,
                       promise |-> "none", settled |-> NotSettled,
                       events |-> IF ~r.threw /\ Truthy(r.result)
                                    THEN <<FilterValid(r.result, "js")>>
                                    ELSE <<FilterInvalid>>]]

\* runFilter() with this.filter.val() = fv and this.data = d: this.data afterwards and
\* the record of the invocation (documents handed to each evaluator, the promise,
\* the events emitted for it so far)
RunFilter(fv, d) ==
  IF FilterIsEmpty(fv)
    THEN [data |-> d,
          run |-> [filter |-> fv, doc |-> d, js |-> <<>>, jq |-> <<>>,
                   promise |-> "none", settled |-> NotSettled, events |-> <<FilterEmpty>>]]
    ELSE LET r == JsEval(fv.s, d)
         IN  IF ~r.threw
               THEN [data |-> r.x,
                     run |-> [filter |-> fv, doc |-> d, js |-> <<d>>, jq |-> <<>>,
                              promise |-> "none", settled |-> NotSettled,
                              events |-> IF Truthy(r.result)
                                           THEN <<FilterValid(r.result, "js")>>
                                           ELSE <<FilterInvalid>>]]
               ELSE [data |-> r.x,
                     run |-> [filter |-> fv, doc |-> d, js |-> <<d>>,
                              jq |-> <<JqCall(fv.s, r.x)>>,
                              promise |-> "pending", settled |-> NotSettled,
                              events |-> <<>>]]

\* the .then callback without its null test
JqCallbackNoNullTest(o) ==
  IF o.kind = "resolve" THEN FilterValid(o.v, "jq") ELSE FilterInvalid

\* the .then callback tagging its event with the expression evaluator's kind
JqCallbackExpressionKind(o) ==
  IF o.kind = "resolve"
    THEN IF o.v = Null THEN FilterInvalid ELSE FilterValid(o.v, "js")
    ELSE FilterInvalid

\* the .then / .catch callbacks of the jq promise: the event emitted
JqCallback(o) ==
  IF o.kind = "resolve"
    THEN IF o.v = Null THEN FilterInvalid ELSE FilterValid(o.v, "jq")
    ELSE FilterInvalid

(***************************************************************************)
(* State machine                                                           *)
(***************************************************************************)
Remove(q, i) == SubSeq(q, 1, i - 1) \o SubSeq(q, i + 1, Len(q))

\* what the trace keeps of one validate() call made by handler `by`
ValidateEntry(by, text, before, v) ==
  [op |-> "validate", by |-> by, was |-> text, text |-> text, before |-> before,
   after |-> v.data, events |-> v.events, ret |-> v.ret, set |-> FALSE, threw |-> v.threw]

\* what the trace keeps of one formatInput() call made by handler `by`
FormatEntry(by, text, d, f) ==
  [op |-> "formatInput", by |-> by, was |-> text, text |-> f.content, before |-> d,
   after |-> d, events |-> <<>>, ret |-> FALSE, set |-> f.set, threw |-> f.threw]

\* constructor: setValue(welcomeMessage) runs before the handlers are registered, so
\* nothing validates the welcome message and this.data is never assigned
Init ==
  /\ content \in WelcomeTexts
  /\ data = Undefined
  /\ filterVal = Val(FltEmpty)
  /\ pending = <<>>
  /\ runs = <<>>
  /\ trace = <<>>
  /\ stim = "init"
  /\ nStim = 0
  /\ lastParse = "none"
  /\ thrown = FALSE

\* a stimulus is taken when the previous one has been handled to the end
Idle == pending = <<>> /\ nStim < MaxStimuli

\* the user edits the text: the widget raises change and inputRead (origin +input)
TypeText(t) ==
  /\ Idle
  /\ content' = t
  /\ pending' = <<[type |-> "change", origin |-> "+input"],
                  [type |-> "inputRead", origin |-> "+input"]>>
  /\ trace' = <<>>
  /\ stim' = "type"
  /\ nStim' = nStim + 1
  /\ thrown' = FALSE
  /\ UNCHANGED <<data, filterVal, runs, lastParse>>

\* the user pastes: the widget raises change and inputRead (origin paste)
PasteText(t) ==
  /\ Idle
  /\ content' = t
  /\ pending' = <<[type |-> "change", origin |-> "paste"],
                  [type |-> "inputRead", origin |-> "paste"]>>
  /\ trace' = <<>>
  /\ stim' = "paste"
  /\ nStim' = nStim + 1
  /\ thrown' = FALSE
  /\ UNCHANGED <<data, filterVal, runs, lastParse>>

\* a change handler that formats as well: validate(); formatInput()
OnChangeFormats ==
  \E i \in DOMAIN pending :
    /\ pending[i].type = "change"
    /\ LET v == Validate(content)
           f == FormatInput(v.data, content)
       IN  /\ data' = v.data
           /\ lastParse' = v.parsed
           /\ content' = f.content
           /\ thrown' = (v.threw \/ f.threw)
           /\ pending' = Remove(pending, i) \o f.notify
           /\ trace' = trace \o <<ValidateEntry("change", content, data, v),
                                  FormatEntry("change", content, v.data, f)>>
    /\ UNCHANGED <<filterVal, runs, stim, nStim>>

\* this.editor.on('change', _ => { this.validate() })
OnChange ==
  \E i \in DOMAIN pending :
    /\ pending[i].type = "change"
    /\ LET v == Validate(content)
       IN  /\ data' = v.data
           /\ lastParse' = v.parsed
           /\ thrown' = v.threw
           /\ trace' = Append(trace, ValidateEntry("change", content, data, v))
    /\ pending' = Remove(pending, i)
    /\ UNCHANGED <<content, filterVal, runs, stim, nStim>>

\* the inputRead handler with the validate() call left out
OnInputReadNoValidate ==
  \E i \in DOMAIN pending :
    /\ pending[i].type = "inputRead"
    /\ IF pending[i].origin = "paste"
         THEN LET f == FormatInput(data, content)
              IN  /\ content' = f.content
                  /\ thrown' = f.threw
                  /\ pending' = Remove(pending, i) \o f.notify
                  /\ trace' = Append(trace, FormatEntry("inputRead", content, data, f))
         ELSE /\ pending' = Remove(pending, i)
              /\ thrown' = FALSE
              /\ UNCHANGED <<content, trace>>
    /\ UNCHANGED <<data, lastParse, filterVal, runs, stim, nStim>>

\* this.editor.on('inputRead', (cm, e) => { if ('paste' == e.origin) { validate(); formatInput() } })
OnInputRead ==
  \E i \in DOMAIN pending :
    /\ pending[i].type = "inputRead"
    /\ IF pending[i].origin = "paste"
         THEN LET v == Validate(content)
                  f == FormatInput(v.data, content)
              IN  /\ data' = v.data
                  /\ lastParse' = v.parsed
                  /\ content' = f.content
                  /\ thrown' = (v.threw \/ f.threw)
                  /\ pending' = Remove(pending, i) \o f.notify
                  /\ trace' = trace \o <<ValidateEntry("inputRead", content, data, v),
                                         FormatEntry("inputRead", content, v.data, f)>>
         ELSE /\ pending' = Remove(pending, i)
              /\ thrown' = FALSE
              /\ UNCHANGED <<content, data, lastParse, trace>>
    /\ UNCHANGED <<filterVal, runs, stim, nStim>>

\* runFilter() as a step of the machine, with this.filter.val() = fv
DoRunFilter(fv) ==
  /\ Idle
  /\ Len(runs) < MaxRuns
  /\ LET r == RunFilter(fv, data)
     IN  /\ data' = r.data
         /\ runs' = Append(runs, r.run)
  /\ filterVal' = fv
  /\ trace' = <<>>
  /\ stim' = "runFilter"
  /\ nStim' = nStim + 1
  /\ thrown' = FALSE
  /\ UNCHANGED <<content, pending, lastParse>>

\* this.filter.on('keyup', _ => { this.runFilter() }): the user has typed fv
OnKeyup(fv) == DoRunFilter(fv)

\* editor.runFilter() called from outside, on the filter text as it stands
CallRunFilter == DoRunFilter(filterVal)

\* editor.validate() called from outside
CallValidate ==
  /\ Idle
  /\ LET v == Validate(content)
     IN  /\ data' = v.data
         /\ lastParse' = v.parsed
         /\ thrown' = v.threw
         /\ trace' = <<ValidateEntry("call", content, data, v)>>
  /\ stim' = "validate"
  /\ nStim' = nStim + 1
  /\ UNCHANGED <<content, filterVal, pending, runs>>

\* editor.formatInput() called from outside
CallFormatInput ==
  /\ Idle
  /\ LET f == FormatInput(data, content)
     IN  /\ content' = f.content
         /\ pending' = f.notify
         /\ thrown' = f.threw
         /\ trace' = <<FormatEntry("call", content, data, f)>>
  /\ stim' = "formatInput"
  /\ nStim' = nStim + 1
  /\ UNCHANGED <<data, filterVal, runs, lastParse>>

\* a completion computed from this.data as it is when the promise settles
JqSettleReadsCurrent(i) ==
  /\ pending = <<>>
  /\ i \in DOMAIN runs
  /\ runs[i].promise = "pending"
  /\ \E o \in JqOutcomes(runs[i].jq[1].filter, data) :
       runs' = [runs EXCEPT ![i].promise = "settled",
                            ![i].settled = o,
                            ![i].events = Append(@, JqCallback(o))]
  /\ thrown' = FALSE
  /\ UNCHANGED <<content, data, filterVal, pending, trace, stim, nStim, lastParse>>

\* a completion that drops every other outstanding promise (latest answer wins)
JqSettleLastWins(i) ==
  /\ pending = <<>>
  /\ i \in DOMAIN runs
  /\ runs[i].promise = "pending"
  /\ \E o \in JqOutcomes(runs[i].jq[1].filter, runs[i].jq[1].data) :
       runs' = [k \in DOMAIN runs |->
                  IF k = i
                    THEN [runs[k] EXCEPT !.promise = "settled", !.settled = o,
                                         !.events = Append(@, JqCallback(o))]
                    ELSE IF runs[k].promise = "pending"
                           THEN [runs[k] EXCEPT !.promise = "settled", !.settled = Reject]
                           ELSE runs[k]]
  /\ thrown' = FALSE
  /\ UNCHANGED <<content, data, filterVal, pending, trace, stim, nStim, lastParse>>

\* the jq promise of invocation i settles and its .then / .catch callback runs
JqSettle(i) ==
  /\ pending = <<>>
  /\ i \in DOMAIN runs
  /\ runs[i].promise = "pending"
  /\ \E o \in JqOutcomes(runs[i].jq[1].filter, runs[i].jq[1].data) :
       runs' = [runs EXCEPT ![i].promise = "settled",
                            ![i].settled = o,
                            ![i].events = Append(@, JqCallback(o))]
  /\ thrown' = FALSE
  /\ UNCHANGED <<content, data, filterVal, pending, trace, stim, nStim, lastParse>>

Next ==
  \/ \E t \in Texts : TypeText(t)
  \/ \E t \in Texts : PasteText(t)
  \/ OnChange
  \/ OnInputRead
  \/ \E fv \in FilterVals : OnKeyup(fv)
  \/ CallRunFilter
  \/ CallValidate
  \/ CallFormatInput
  \/ \E i \in 1..MaxRuns : JqSettle(i)

Spec == Init /\ [][Next]_vars

\* the event loop's own steps: a raised notification is delivered, a jq promise settles
Deliver == OnChange \/ OnInputRead \/ \E i \in 1..MaxRuns : JqSettle(i)

\* the event loop keeps running what is ready: notifications are delivered and every
\* jq promise settles
FairSpec == Spec /\ WF_vars(Deliver)

TypeOK ==
  /\ content \in AllTexts
  /\ nStim \in 0..MaxStimuli
  /\ Len(runs) <= MaxRuns
  /\ thrown \in BOOLEAN

(***************************************************************************)
(* Properties                                                              *)
(***************************************************************************)
\* filter text that is empty or absent, as the claims mean it
EmptyOrAbsent(fv) == fv \in {Absent, Val(FltEmpty)}
Names(events) == [k \in DOMAIN events |-> events[k].name]
Count(events, names) == Cardinality({k \in DOMAIN events : events[k].name \in names})
Outcomes(r) == Count(r.events, {"filter-valid", "filter-invalid"})
NonEmptyRun(i) == i \in DOMAIN runs /\ ~EmptyOrAbsent(runs[i].filter)
ValidateCalls == {k \in DOMAIN trace : trace[k].op = "validate"}
FormatCalls == {k \in DOMAIN trace : trace[k].op = "formatInput"}

\* C1 (safety half): an invocation with non-empty filter text has never more than one
\* outcome event, has exactly one once no jq promise is outstanding for it, and
\* never a filter-empty
AtMostOneOutcome ==
  \A i \in DOMAIN runs :
    ~EmptyOrAbsent(runs[i].filter) =>
      /\ Outcomes(runs[i]) <= 1
      /\ runs[i].promise # "pending" => Outcomes(runs[i]) = 1
      /\ Count(runs[i].events, {"filter-empty"}) = 0

\* C1: every runFilter() invocation with non-empty filter text emits exactly one of
\* filter-valid and filter-invalid: never two, and eventually one, on the
\* synchronous path and on every settlement of the jq promise (the events of an
\* invocation are never taken back, so "again and again every invocation so far has
\* its outcome" gives each invocation its outcome)
C1_ExactlyOneOutcome ==
  /\ []AtMostOneOutcome
  /\ []<>(\A i \in DOMAIN runs : NonEmptyRun(i) => Outcomes(runs[i]) = 1)

C1_Witness ==
  \E i, j \in DOMAIN runs :
    /\ runs[i].filter = Val(FltBroken)
    /\ runs[i].promise = "settled"
    /\ Names(runs[i].events) = <<"filter-invalid">>
    /\ runs[j].promise = "settled"
    /\ Names(runs[j].events) = <<"filter-valid">>

\* C2: an invocation with empty or absent filter text emits filter-empty once and
\* nothing else, then or later, and calls neither evaluator
C2_EmptyFilter ==
  \A i \in DOMAIN runs :
    EmptyOrAbsent(runs[i].filter) =>
      /\ runs[i].events = <<FilterEmpty>>
      /\ runs[i].js = <<>>
      /\ runs[i].jq = <<>>
      /\ runs[i].promise = "none"

C2_Witness ==
  \E i, j \in DOMAIN runs :
    /\ runs[i].filter = Absent
    /\ runs[i].doc = Undefined
    /\ runs[j].filter = Val(FltEmpty)
    /\ runs[j].doc = DocA1
    /\ nStim = MaxStimuli

\* C3: validate() on a text json5 rejects leaves this.data null, emits nothing,
\* returns false and throws nothing
C3_ValidateRejected ==
  /\ \A k \in ValidateCalls :
       ~Parse(trace[k].was).ok =>
         /\ trace[k].after = Null
         /\ trace[k].events = <<>>
         /\ trace[k].ret = FALSE
         /\ trace[k].threw = FALSE
  /\ (trace # <<>> /\ trace[Len(trace)].op = "validate") => data = trace[Len(trace)].after

C3_Witness ==
  /\ trace # <<>>
  /\ trace[Len(trace)].op = "validate"
  /\ trace[Len(trace)].was = TxtBroken
  /\ trace[Len(trace)].before = DocA1
  /\ data = Null

\* C4: validate() on a text json5 accepts stores the parsed value, whatever this.data
\* was, emits input-valid exactly once and returns true
C4_ValidateAccepted ==
  /\ \A k \in ValidateCalls :
       Parse(trace[k].was).ok =>
         /\ trace[k].after = Parse(trace[k].was).v
         /\ Names(trace[k].events) = <<"input-valid">>
         /\ trace[k].ret = TRUE
  /\ (trace # <<>> /\ trace[Len(trace)].op = "validate") => data = trace[Len(trace)].after

C4_Witness ==
  /\ trace # <<>>
  /\ trace[Len(trace)].op = "validate"
  /\ trace[Len(trace)].was = TxtJson5
  /\ trace[Len(trace)].before = DocA5
  /\ data = DocA1

\* C5: whenever the most recent json5.parse attempt failed, this.data is null
C5_NullAfterFailedParse == lastParse = "failed" => data = Null

C5_Witness ==
  /\ lastParse = "failed"
  /\ \E i \in DOMAIN runs : runs[i].doc = Null /\ runs[i].promise = "settled"
  /\ stim = "runFilter"

\* C6 as stated: an invocation made while this.data is null never emits filter-valid
C6_NullDocNeverValid ==
  \A i \in DOMAIN runs :
    runs[i].doc = Null => Count(runs[i].events, {"filter-valid"}) = 0

\* C6 as amended: an invocation made while this.data is null throws nothing and emits
\* one event: filter-empty for empty text, filter-invalid for a property access on the
\* document and for text invalid under both evaluators, filter-valid only for text
\* whose expression is truthy on null without throwing (||1) or whose query yields a
\* non-null value on null after the expression threw (.a//1, .a=5)
C6_NullDocOutcomes ==
  /\ \A i \in DOMAIN runs :
       runs[i].doc = Null =>
         /\ Len(runs[i].events) <= 1
         /\ runs[i].promise # "pending" => Len(runs[i].events) = 1
         /\ Count(runs[i].events, {"filter-valid"}) = 1 =>
              runs[i].filter \in {Val(FltOr), Val(FltAlt), Val(FltSet)}
         /\ (runs[i].promise = "settled"
               /\ runs[i].filter \in {Val(FltA), Val(FltIndex), Val(FltBroken), Val(FltSetThrow)}) =>
              runs[i].events = <<FilterInvalid>>
         /\ EmptyOrAbsent(runs[i].filter) => runs[i].events = <<FilterEmpty>>
  /\ (stim = "runFilter" /\ runs[Len(runs)].doc = Null) => ~thrown

C6_Witness ==
  \E i, j \in DOMAIN runs :
    /\ runs[i].doc = Null
    /\ runs[i].filter = Val(FltAlt)
    /\ runs[i].events = <<FilterValid(Num(1), "jq")>>
    /\ runs[j].doc = Null
    /\ runs[j].filter = Val(FltA)
    /\ runs[j].events = <<FilterInvalid>>

\* C7: both evaluators of an invocation are handed this.data as it was when
\* runFilter() was invoked
C7_EvaluatorsGetInvocationDocument ==
  \A i \in DOMAIN runs :
    /\ \A k \in DOMAIN runs[i].js : runs[i].js[k] = runs[i].doc
    /\ \A k \in DOMAIN runs[i].jq : runs[i].jq[k].data = runs[i].doc

\* C8 as stated: a paste causes one validate() and one formatInput(), in that
\* order, and no further validate()
C8_OnePassEach ==
  (stim = "paste" /\ pending = <<>>) =>
    /\ Cardinality(ValidateCalls) = 1
    /\ Cardinality(FormatCalls) = 1
    /\ \A v \in ValidateCalls, f \in FormatCalls : v < f

\* C8 as amended: the inputRead handler of a paste runs validate() once and then
\* formatInput() once; the change handler runs validate() once more for the pasted
\* change and once more again when formatInput() replaced the content
C8_PasteHandlerPasses ==
  (stim = "paste" /\ pending = <<>>) =>
    /\ Cardinality(FormatCalls) = 1
    /\ \A f \in FormatCalls :
         /\ trace[f].by = "inputRead"
         /\ f > 1
         /\ trace[f - 1].op = "validate"
         /\ trace[f - 1].by = "inputRead"
         /\ Cardinality({v \in ValidateCalls : trace[v].by = "inputRead"}) = 1
         /\ Cardinality({v \in ValidateCalls : trace[v].by = "change"})
              = IF trace[f].set THEN 2 ELSE 1
         /\ trace[f].set => \E v \in ValidateCalls : v > f /\ trace[v].by = "change"

C8_Witness ==
  /\ stim = "paste"
  /\ pending = <<>>
  /\ Cardinality(ValidateCalls) = 3
  /\ content = FmtA1

\* C9: no step lets an exception escape validate(), formatInput() or runFilter()
C9_NoThrow == ~thrown

\* C10: formatInput() with this.data absent (null, or never assigned) does not touch
\* the editor and raises no change notification; with this.data present it replaces
\* the content with the indented serialization
C10_FormatInput ==
  /\ \A k \in FormatCalls :
       IF Nullish(trace[k].before)
         THEN ~trace[k].set /\ ~trace[k].threw /\ trace[k].text = trace[k].was
         ELSE trace[k].set /\ trace[k].text = Ser(trace[k].before, 0)
  /\ (stim = "formatInput" /\ Nullish(trace[1].before)) =>
       pending = <<>> /\ ValidateCalls = {}

\* ---------------------------------------------------------------------------
\* C11: formatInput() followed by the validate() that its change notification
\* triggers leaves Document as it was: whenever formatInput() has written the
\* formatted text and a later validate() of the same stimulus has read it, that
\* validate() yields a Document equal to the one formatInput() was given, and
\* formatting that Document again yields the same text
C11_FormatRoundTrip ==
  \A f \in FormatCalls : \A v \in ValidateCalls :
    (trace[f].set /\ ~trace[f].threw /\ v > f) =>
      /\ trace[v].was = trace[f].text
      /\ trace[v].after = trace[f].before
      /\ Stringify(trace[v].after) = [str |-> TRUE, s |-> trace[f].text]

\* ---------------------------------------------------------------------------
\* the expression evaluation of invocation r on the Document it was started with
ExprOf(r) == JsEval(r.filter.s, r.doc)
ExprReturned(r) == ~EmptyOrAbsent(r.filter) /\ ~ExprOf(r).threw
ExprThrew(r) == ~EmptyOrAbsent(r.filter) /\ ExprOf(r).threw
QueryResolved(r) == r.settled.kind = "resolve" /\ r.settled.v # Null

\* C12: every filter-valid event carries the kind of the evaluator that produced
\* it and that evaluator's value: kind js exactly when the expression completed
\* without throwing with a truthy value, which is the event's result; kind jq
\* exactly when the expression threw and the jq promise resolved with a non-null
\* value, which is the event's result
C12_FilterValidKind ==
  \A i \in DOMAIN runs :
    LET r == runs[i]
    IN  /\ \A k \in DOMAIN r.events :
             r.events[k].name = "filter-valid" =>
               /\ r.events[k].type \in {"js", "jq"}
               /\ r.events[k].type = "js" =>
                    /\ ExprReturned(r) /\ Truthy(ExprOf(r).result)
                    /\ r.events[k].result = ExprOf(r).result
                    /\ r.settled.kind = "none"
               /\ r.events[k].type = "jq" =>
                    /\ ExprThrew(r) /\ QueryResolved(r)
                    /\ r.events[k].result = r.settled.v
        /\ (ExprReturned(r) /\ Truthy(ExprOf(r).result)) =>
             r.events = <<[name |-> "filter-valid", result |-> ExprOf(r).result,
                           type |-> "js"]>>
        /\ (ExprThrew(r) /\ QueryResolved(r)) =>
             r.events = <<[name |-> "filter-valid", result |-> r.settled.v,
                           type |-> "jq"]>>

\* on Document {a: 1}, `.a` has given 1 as an expression and `.["a"]` 1 as a query
C12_Witness ==
  \E i, j \in DOMAIN runs :
    /\ runs[i].filter = Val(FltA) /\ runs[i].doc = DocA1
    /\ runs[i].events = <<[name |-> "filter-valid", result |-> Num(1), type |-> "js"]>>
    /\ runs[j].filter = Val(FltIndex) /\ runs[j].doc = DocA1
    /\ runs[j].events = <<[name |-> "filter-valid", result |-> Num(1), type |-> "jq"]>>

\* ---------------------------------------------------------------------------
\* C13: an invocation whose expression completes without throwing with a falsy
\* result (null, undefined, 0) has filter-invalid as its one event from the step
\* of the invocation on, and jq is never called for it
C13_FalsyResultInvalid ==
  \A i \in DOMAIN runs :
    LET r == runs[i]
    IN  (ExprReturned(r) /\ ~Truthy(ExprOf(r).result)) =>
          /\ r.events = <<[name |-> "filter-invalid"]>>
          /\ r.jq = <<>>
          /\ r.promise = "none"
          /\ r.settled.kind = "none"

\* `&&0` has given 0 on {a: 1} and undefined on a Document never assigned
C13_Witness ==
  \E i, j \in DOMAIN runs :
    /\ runs[i].filter = Val(FltAnd) /\ runs[i].doc = DocA1
    /\ ExprOf(runs[i]) = Returned(Num(0), DocA1)
    /\ runs[i].events = <<[name |-> "filter-invalid"]>>
    /\ runs[j].filter = Val(FltAnd) /\ runs[j].doc = Undefined
    /\ ExprOf(runs[j]) = Returned(Undefined, Undefined)
    /\ runs[j].events = <<[name |-> "filter-invalid"]>>

\* ---------------------------------------------------------------------------
\* C14 (as claimed): an expression that throws and an expression that yields a
\* falsy result both make runFilter() call jq
C14_ErrorTriggersFallback ==
  \A i \in DOMAIN runs :
    LET r == runs[i]
    IN  (ExprThrew(r) \/ (ExprReturned(r) /\ ~Truthy(ExprOf(r).result))) => r.jq # <<>>

\* C14 (amended): runFilter() calls jq exactly when the expression evaluation
\* throws, and then emits nothing for the expression's failure (the invocation
\* has no event while the promise is pending); an expression that completes,
\* with a falsy result too, never reaches jq
C14_FallbackOnThrowOnly ==
  \A i \in DOMAIN runs :
    LET r == runs[i]
    IN  /\ r.jq # <<>> <=> ExprThrew(r)
        /\ ExprReturned(r) => r.jq = <<>> /\ r.promise = "none"
        /\ r.promise = "pending" => r.events = <<>>

\* `]` has thrown as an expression and reached jq; `&&0` has completed with a
\* falsy result and has not
C14_Witness ==
  \E i, j \in DOMAIN runs :
    /\ runs[i].filter = Val(FltBroken) /\ ExprThrew(runs[i])
    /\ Len(runs[i].jq) = 1
    /\ runs[j].filter = Val(FltAnd) /\ ExprReturned(runs[j])
    /\ ~Truthy(ExprOf(runs[j]).result)
    /\ runs[j].jq = <<>> /\ runs[j].events = <<[name |-> "filter-invalid"]>>

\* ---------------------------------------------------------------------------
\* the jq promise of invocation r has settled without a usable value
QueryFailed(r) ==
  r.settled.kind = "reject" \/ (r.settled.kind = "resolve" /\ r.settled.v = Null)

\* an invocation whose expression threw has called jq exactly once, with its
\* filter text and the Document the coordinator held at the call (the Document
\* as the expression left it); once the promise failed, filter-invalid is its
\* one event
FallbackOnce ==
  \A i \in DOMAIN runs :
    LET r == runs[i]
    IN  ExprThrew(r) =>
          /\ Len(r.jq) = 1
          /\ r.jq[1].filter = r.filter.s
          /\ r.jq[1].data = ExprOf(r).x
          /\ r.promise \in {"pending", "settled"}
          /\ r.promise = "pending" <=> r.settled.kind = "none"
          /\ QueryFailed(r) => r.events = <<[name |-> "filter-invalid"]>>

\* a settled invocation never changes again: no second jq call, no further event
SettledIsTerminal ==
  \A i \in DOMAIN runs :
    runs[i].promise = "settled" => (i \in DOMAIN runs' /\ runs'[i] = runs[i])

\* C15: when the expression evaluation throws, jq is called exactly once with the
\* filter text and the Document, and a null result and a rejection each end the
\* invocation with filter-invalid: no retry, no filter-valid
C15_FallbackTerminal == []FallbackOnce /\ [][SettledIsTerminal]_vars

\* `]` has been rejected by jq and `.["a"]` has resolved to null, each with
\* filter-invalid as the only event
C15_Witness ==
  \E i, j \in DOMAIN runs :
    /\ runs[i].filter = Val(FltBroken) /\ runs[i].settled = [kind |-> "reject"]
    /\ runs[i].events = <<[name |-> "filter-invalid"]>>
    /\ runs[j].filter = Val(FltIndex) /\ runs[j].settled = [kind |-> "resolve", v |-> Null]
    /\ runs[j].events = <<[name |-> "filter-invalid"]>>

\* ---------------------------------------------------------------------------
\* C16: Document has a single writer: a step changes it only when validate() runs
\* in that step (the change handler, the paste handler, or a direct call), so
\* runFilter(), on every path, and formatInput() leave it as it was
C16_SingleWriter ==
  [][data' # data => (OnChange \/ OnInputRead \/ CallValidate)]_vars

\* ---------------------------------------------------------------------------
\* the invocations with non-empty filter text whose outcome is due: those without
\* an outstanding jq promise
Completed == {i \in DOMAIN runs : NonEmptyRun(i) /\ runs[i].promise # "pending"}
TotalOutcomes(S) == Cardinality({<<i, k>> \in S \X (1..2) :
                                   /\ k \in DOMAIN runs[i].events
                                   /\ runs[i].events[k].name \in {"filter-valid", "filter-invalid"}})

\* as many outcome events as completed invocations, one each, and none yet for an
\* invocation whose promise is outstanding
OneOutcomePerInvocation ==
  /\ TotalOutcomes(DOMAIN runs) = Cardinality(Completed)
  /\ \A i \in Completed : Outcomes(runs[i]) = 1 /\ Len(runs[i].events) = 1
  /\ \A i \in DOMAIN runs : runs[i].promise = "pending" => runs[i].events = <<>>

\* a step touches at most one earlier invocation, which then had an outstanding
\* promise and gains its one event; every other invocation keeps what it had
CompletionsIndependent ==
  LET changed == {i \in DOMAIN runs : i \notin DOMAIN runs' \/ runs'[i] # runs[i]}
  IN  /\ Cardinality(changed) <= 1
      /\ \A i \in changed :
           /\ i \in DOMAIN runs'
           /\ runs[i].promise = "pending" /\ runs'[i].promise = "settled"
           /\ Len(runs'[i].events) = Len(runs[i].events) + 1
           /\ runs'[i].filter = runs[i].filter /\ runs'[i].jq = runs[i].jq

\* C17: overlapping runFilter() invocations are independent: whatever the order
\* in which the jq promises settle, N invocations with non-empty filter text end
\* with exactly N outcome events, one per invocation, and no completion
\* suppresses, cancels or duplicates the outcome of another invocation
C17_IndependentInvocations ==
  []OneOutcomePerInvocation /\ [][CompletionsIndependent]_vars

\* two invocations overlapped and the later one completed first
C17_Witness ==
  /\ Len(runs) = 2
  /\ NonEmptyRun(1) /\ runs[1].promise = "pending" /\ runs[1].events = <<>>
  /\ NonEmptyRun(2) /\ runs[2].promise = "settled" /\ Outcomes(runs[2]) = 1

\* ---------------------------------------------------------------------------
\* the handling of one stimulus makes at most four calls (a paste runs the change
\* handler, the paste handler with validate() and formatInput(), and the change
\* handler again) with at most two notifications waiting, and formatInput() is
\* never called from the change handler
HandlingBounded ==
  /\ Len(trace) <= 4
  /\ Len(pending) <= 2
  /\ \A f \in FormatCalls : trace[f].by \in {"inputRead", "call"}

\* a run of the change handler is one validate() call: one notification fewer,
\* none added, content as it was
ChangeOnlyValidates ==
  (Len(trace') > Len(trace) /\ trace'[Len(trace) + 1].by = "change") =>
     /\ trace' = Append(trace, trace'[Len(trace) + 1])
     /\ trace'[Len(trace) + 1].op = "validate"
     /\ content' = content
     /\ Len(pending') = Len(pending) - 1
     /\ \A k \in DOMAIN pending' : \E j \in DOMAIN pending : pending'[k] = pending[j]

\* C18: the re-entrancy from formatInput() terminates: the change notification of
\* its setValue runs validate() and nothing more, validate() never calls
\* formatInput() or changes the content, and the handling of every stimulus comes
\* to rest after a bounded number of handler calls (a stimulus starts at rest, so
\* being at rest, with no notification waiting, again and again is every
\* stimulus coming to rest)
C18_ReentrancyTerminates ==
  /\ []HandlingBounded
  /\ [][ChangeOnlyValidates]_vars
  /\ []<>(pending = <<>>)

\* a paste has been handled to the end: formatInput() wrote the formatted text and
\* the change handler validated it as the fourth and last call
C18_Witness ==
  /\ stim = "paste" /\ pending = <<>>
  /\ Len(trace) = 4
  /\ \E f \in FormatCalls : trace[f].set /\ f < 4 /\ trace[4].was = trace[f].text
  /\ trace[4].op = "validate" /\ trace[4].by = "change"

\* ---------------------------------------------------------------------------
\* the validate() calls of the stimulus that emitted input-valid
AcceptingCalls == {v \in ValidateCalls : Names(trace[v].events) = <<"input-valid">>}

\* C19 (as claimed): whenever validate() emits input-valid, Document is not null
\* when validate() returns, so a formatInput() that follows is never a no-op
C19_InputValidMeansPresent ==
  \A v \in AcceptingCalls :
    /\ trace[v].after # Null
    /\ \A f \in FormatCalls : f = v + 1 => trace[f].set

\* C19 (amended): whenever validate() emits input-valid, Document is the parsed
\* value of the text when validate() returns; it is null exactly for the text
\* `null`, and the formatInput() that follows in the paste handler writes the
\* content exactly when it is not null
C19_InputValidDocument ==
  \A v \in AcceptingCalls :
    /\ trace[v].ret
    /\ trace[v].after # Undefined
    /\ trace[v].after = Null <=> trace[v].was = TxtNull
    /\ \A f \in FormatCalls :
         f = v + 1 => /\ trace[f].before = trace[v].after
                      /\ ~trace[f].threw
                      /\ trace[f].set <=> trace[v].after # Null

\* the text `null` was pasted: validate() emitted input-valid with a null Document
\* and formatInput() left the content alone
C19_Witness ==
  \E v \in AcceptingCalls :
    /\ trace[v].by = "inputRead" /\ trace[v].was = TxtNull /\ trace[v].after = Null
    /\ v + 1 \in FormatCalls /\ ~trace[v + 1].set /\ trace[v + 1].text = TxtNull

\* ---------------------------------------------------------------------------
\* C20 (as claimed): the Document an outcome is computed from is the Document at
\* its emission: no validate() changes Document between a runFilter() invocation
\* and the emission of its outcome, so no step in which validate() runs changes
\* Document while an invocation waits for its jq promise
C20_NoValidateBeforeEmission ==
  [][((OnChange \/ OnInputRead \/ CallValidate) /\ data' # data) =>
       \A i \in DOMAIN runs : runs[i].promise # "pending"]_vars

\* an invocation that does not reach jq has its event from the step of the
\* invocation on: nothing runs between invocation and emission
SyncEmitsAtInvocation ==
  \A i \in DOMAIN runs : runs[i].promise = "none" => Len(runs[i].events) = 1

\* the outcome of a settled invocation is the one jq gives for the Document handed
\* over at the invocation, whatever Document is by then
AsyncFromInvocationDocument ==
  \A i \in DOMAIN runs :
    LET r == runs[i]
    IN  r.promise = "settled" =>
          /\ r.settled \in JqOutcomes(r.jq[1].filter, r.jq[1].data)
          /\ r.events = <<IF QueryResolved(r)
                            THEN [name |-> "filter-valid", result |-> r.settled.v,
                                  type |-> "jq"]
                            ELSE [name |-> "filter-invalid"]>>

\* C20 (amended): on the synchronous path the outcome is emitted inside
\* runFilter(), so no validate() runs between invocation and emission; on the
\* query path the outcome is computed from the Document handed to jq at the
\* invocation, and it stays that outcome when validate() has replaced Document
\* before the promise settles
C20_OutcomeFromInvocationDocument ==
  SyncEmitsAtInvocation /\ AsyncFromInvocationDocument

\* `.["a"]` was handed {a: 1} and resolved to 1 after a validate() of broken text
\* had set Document to null
C20_Witness ==
  \E i \in DOMAIN runs :
    /\ runs[i].filter = Val(FltIndex) /\ runs[i].jq = <<[filter |-> FltIndex, data |-> DocA1]>>
    /\ runs[i].promise = "settled"
    /\ runs[i].events = <<[name |-> "filter-valid", result |-> Num(1), type |-> "jq"]>>
    /\ data = Null /\ lastParse = "failed"

====
